---- MODULE Spec2Model ----
(***************************************************************************)
(* Model of the HTTP handlers of cardano-db-sync-api (src/main.go):        *)
(* nftOwnersHandler (/nft-owners) and getCurrentEpoch (/current-epoch),    *)
(* together with the ledger tables the aggregation query reads, the cache  *)
(* backend the process connects to, and the clients' connections.          *)
(*                                                                         *)
(* Strings that the code inspects character by character (the policy_id    *)
(* query parameter) are sequences of one-character strings; byte strings   *)
(* are sequences of numbers 0..255.  Response bodies are the strings the   *)
(* handler writes.                                                         *)
(***************************************************************************)
EXTENDS Integers, Sequences, FiniteSets, TLC

VARIABLES
    tx_out,         \* table tx_out: row id |-> [address_id, consumed_by_tx_id]
    ma_tx_out,      \* table ma_tx_out: row id |-> [tx_out_id, ident, quantity]
    epoch,          \* table epoch: the set of values of its column "no"
    cacheUp,        \* whether the cache backend at localhost:6379 accepts calls
    pc,             \* position of the handler serving the connection
    route,          \* the path of the request being served
    policyID,       \* r.URL.Query().Get("policy_id")
    rows,           \* *sql.Rows: the rows not yet fetched, and the stream's error
    results,        \* var results []NFTResponse
    status,         \* status code written to the ResponseWriter (0: none yet)
    body,           \* bytes written to the ResponseWriter
    dbCalls,        \* database calls issued by the request being served
    cacheCalls,     \* cache calls issued by the request being served
    dbOutcome,      \* how the database call of this request ended
    clientGone,     \* the client has abandoned the connection
    goneInFlight,   \* ... and did so while the database call was in flight
    last,           \* observer: the latest 200 response of /nft-owners
    age,            \* observer: clock ticks since that response was written
    prior           \* observer: what `last` and `age` were when the request came in

progVars == <<pc, route, policyID, rows, results, status, body, dbCalls,
              cacheCalls, dbOutcome, goneInFlight>>
envVars  == <<tx_out, ma_tx_out, epoch, cacheUp, clientGone>>
obsVars  == <<last, age, prior>>
vars     == <<tx_out, ma_tx_out, epoch, cacheUp, pc, route, policyID, rows,
              results, status, body, dbCalls, cacheCalls, dbOutcome,
              clientGone, goneInFlight, last, age, prior>>

-----------------------------------------------------------------------------
(* Bounds of the model.                                                    *)

MaxOutputs == 3         \* outputs the ingestion may record, under SpecLedger
MaxServiceOutputs == 2  \* the same, under Spec
MaxRepeatOutputs == 2   \* the same, under SpecRepeat
MaxEpoch == 1           \* highest epoch number the ingestion may record
MaxAge == 2             \* the observer's clock stops counting here

-----------------------------------------------------------------------------
(* Values.                                                                 *)

NULL == "NULL"
None == "none"
Nil  == "nil"

StatusOK == 200
StatusBadRequest == 400
StatusInternalServerError == 500

\* The cache entry's time to live of the (disabled) store, in clock ticks of
\* one minute.
TTL == 1

-----------------------------------------------------------------------------
(* encoding/hex, as called by the handler.                                 *)

\* fromHexChar: the value of a hexadecimal digit, 16 for any other character.
FromHexChar(c) ==
    CASE c = "0" -> 0  [] c = "1" -> 1  [] c = "2" -> 2  [] c = "3" -> 3
      [] c = "4" -> 4  [] c = "5" -> 5  [] c = "6" -> 6  [] c = "7" -> 7
      [] c = "8" -> 8  [] c = "9" -> 9
      [] c = "a" -> 10 [] c = "b" -> 11 [] c = "c" -> 12
      [] c = "d" -> 13 [] c = "e" -> 14 [] c = "f" -> 15
      [] c = "A" -> 10 [] c = "B" -> 11 [] c = "C" -> 12
      [] c = "D" -> 13 [] c = "E" -> 14 [] c = "F" -> 15
      [] OTHER -> 16

\* hex.DecodeString: pairs of digits become bytes, left to right; the first
\* bad digit ends the decoding with InvalidByteError, an odd length with
\* ErrLength.
RECURSIVE Decode(_, _)
Decode(src, acc) ==
    IF Len(src) = 0 THEN [err |-> Nil, bytes |-> acc]
    ELSE IF FromHexChar(src[1]) > 15 THEN [err |-> "InvalidByteError", bytes |-> acc]
    ELSE IF Len(src) = 1 THEN [err |-> "ErrLength", bytes |-> acc]
    ELSE IF FromHexChar(src[2]) > 15 THEN [err |-> "InvalidByteError", bytes |-> acc]
    ELSE Decode(SubSeq(src, 3, Len(src)),
                Append(acc, (FromHexChar(src[1]) * 16 + FromHexChar(src[2])) % 256))

DecodeString_AcceptsOddLength(s) ==
    IF Len(s) % 2 = 1 /\ Decode(SubSeq(s, 1, Len(s) - 1), <<>>).err = Nil
    THEN Decode(SubSeq(s, 1, Len(s) - 1), <<>>)
    ELSE Decode(s, <<>>)

DecodeString(s) == Decode(s, <<>>)

-----------------------------------------------------------------------------
(* The ledger schema the query joins.  address and multi_asset are written *)
(* once; tx_out and ma_tx_out grow as the ingestion follows the chain.     *)

address ==
    << [address |-> "addr_a", has_script |-> FALSE],
       [address |-> "addr_b", has_script |-> FALSE],
       [address |-> "addr_s", has_script |-> TRUE] >>

multi_asset ==
    << [policy |-> <<171>>, name |-> "x"],       \* policy ab
       [policy |-> <<171>>, name |-> "y"],       \* policy ab
       [policy |-> <<205>>, name |-> "x"] >>     \* policy cd

\* The outputs the ingestion draws from when it records a new one: the
\* address that receives it, the asset it carries and the quantity.
Outputs ==
    { [address_id |-> 1, ident |-> 1, quantity |-> 1],
      [address_id |-> 2, ident |-> 1, quantity |-> 1],
      [address_id |-> 1, ident |-> 2, quantity |-> 1],
      [address_id |-> 3, ident |-> 1, quantity |-> 1],
      [address_id |-> 1, ident |-> 3, quantity |-> 1],
      [address_id |-> 2, ident |-> 1, quantity |-> 2] }

\* Policy identifiers of the catalog, and the request parameters tried:
\* absent, empty, a non-hex character, an odd length, and valid ones in both
\* cases of the letters.
NoParam == <<"?">>
Params ==
    { NoParam, <<>>, <<"z", "z">>, <<"a", "b", "c">>, <<"a", "g">>,
      <<"a", "b">>, <<"A", "B">>, <<"c", "d">>, <<"0", "0">> }

\* url.Values.Get: the first value of the key, "" when the key is absent.
QueryGet(param) == IF param = NoParam THEN <<>> ELSE param

-----------------------------------------------------------------------------
(* The aggregation query (the SQL text of nftOwnersHandler).               *)

\* FROM ma_tx_out mto JOIN tx_out txo JOIN address JOIN multi_asset ma:
\* the ids of the ma_tx_out rows that have a partner in every joined table.
Joined ==
    { m \in DOMAIN ma_tx_out :
        /\ ma_tx_out[m].tx_out_id \in DOMAIN tx_out
        /\ tx_out[ma_tx_out[m].tx_out_id].address_id \in DOMAIN address
        /\ ma_tx_out[m].ident \in DOMAIN multi_asset }

Txo(m)  == tx_out[ma_tx_out[m].tx_out_id]
Addr(m) == address[Txo(m).address_id]
Ma(m)   == multi_asset[ma_tx_out[m].ident]

\* WHERE ma.policy = $1 AND txo.consumed_by_tx_id IS NULL
\*   AND mto.quantity = 1 AND address.has_script = FALSE
Where_CountsSpent(m, policy) ==
    /\ Ma(m).policy = policy
    /\ ma_tx_out[m].quantity = 1
    /\ Addr(m).has_script = FALSE

Where(m, policy) ==
    /\ Ma(m).policy = policy
    /\ Txo(m).consumed_by_tx_id = NULL
    /\ ma_tx_out[m].quantity = 1
    /\ Addr(m).has_script = FALSE

\* SUM(mto.quantity)::BIGINT over a set of joined rows.
RECURSIVE SumQuantity(_)
SumQuantity(ms) ==
    IF ms = {} THEN 0
    ELSE LET m == CHOOSE x \in ms : TRUE
         IN  ma_tx_out[m].quantity + SumQuantity(ms \ {m})

\* GROUP BY address.address: one row per address that has a selected row.
GroupBy(policy) ==
    LET selected == { m \in Joined : Where(m, policy) }
        keys     == { Addr(m).address : m \in selected }
    IN  { [Address |-> a,
           Count   |-> SumQuantity({ m \in selected : Addr(m).address = a })]
          : a \in keys }

\* ORDER BY total_quantity DESC: the orders the database may deliver the
\* groups in; rows of equal total come in any order.
IsDescending(seq) ==
    \A i \in 1..(Len(seq) - 1) : seq[i].Count >= seq[i + 1].Count

OrderBy_Ascending(groups) ==
    { seq \in [1..Cardinality(groups) -> groups] :
        /\ \A g \in groups : \E i \in DOMAIN seq : seq[i] = g
        /\ \A i \in 1..(Len(seq) - 1) : seq[i].Count <= seq[i + 1].Count }

OrderBy(groups) ==
    { seq \in [1..Cardinality(groups) -> groups] :
        /\ \A g \in groups : \E i \in DOMAIN seq : seq[i] = g
        /\ IsDescending(seq) }

\* SELECT MAX(no) FROM epoch: NULL over an empty table.
MaxNo ==
    IF epoch = {} THEN [null |-> TRUE, value |-> 0]
    ELSE [null |-> FALSE, value |-> CHOOSE n \in epoch : \A k \in epoch : k <= n]

-----------------------------------------------------------------------------
(* encoding/json and net/http, as called by the handlers.                  *)

\* One NFTResponse, with the field names of its json tags.
MarshalRecord(res) ==
    "{\"address\":\"" \o res.Address \o "\",\"count\":" \o ToString(res.Count) \o "}"

RECURSIVE MarshalElems(_)
MarshalElems(elems) ==
    IF Len(elems) = 0 THEN ""
    ELSE IF Len(elems) = 1 THEN MarshalRecord(elems[1])
    ELSE MarshalRecord(elems[1]) \o "," \o MarshalElems(Tail(elems))

\* A slice is nil until the first append; json.Marshal writes a nil slice as
\* null and any other slice as an array.  It has no error for this type.
NilSlice == [nil |-> TRUE, elems |-> <<>>]

AppendSlice(s, x) == [nil |-> FALSE, elems |-> Append(s.elems, x)]

Marshal(s) ==
    [err  |-> Nil,
     data |-> IF s.nil THEN "null" ELSE "[" \o MarshalElems(s.elems) \o "]"]

\* json.Marshal(map[string]int64{"current_epoch": epoch})
MarshalEpoch(n) ==
    [err |-> Nil, data |-> "{\"current_epoch\":" \o ToString(n) \o "}"]

\* http.Error writes the message and a newline.
ErrorBody(msg) == msg \o "\n"

\* The package-level ctx is context.Background(): it has no deadline and is
\* never cancelled, whatever happens to the request it is used in.
CtxDone == FALSE

-----------------------------------------------------------------------------
(* The state after init() and before the first request.                    *)

NoRows == [pending |-> <<>>, lasterr |-> Nil]

Idle ==
    /\ pc = "idle"
    /\ route = None
    /\ policyID = <<>>
    /\ rows = NoRows
    /\ results = NilSlice
    /\ status = 0
    /\ body = ""
    /\ dbCalls = 0
    /\ cacheCalls = 0
    /\ dbOutcome = None
    /\ goneInFlight = FALSE

NoLast == [ok |-> FALSE, policyID |-> <<>>, body |-> ""]
NoPrior == [same |-> FALSE, age |-> 0, body |-> ""]

Init ==
    /\ tx_out = <<>>
    /\ ma_tx_out = <<>>
    /\ epoch = {}
    /\ cacheUp \in BOOLEAN
    /\ clientGone = FALSE
    /\ Idle
    /\ last = NoLast
    /\ age = 0
    /\ prior = NoPrior

\* The handler writes the response and returns.
Respond(code, bytes) ==
    /\ status' = code
    /\ body' = bytes
    /\ pc' = "done"

-----------------------------------------------------------------------------
(* nftOwnersHandler.                                                       *)

\* From the arrival of the request to the call of db.QueryContext: the
\* parameter is read and checked, and the query is sent.  The cache lookup
\* between the two checks is commented out in the source: no cache call is
\* made.
NftReceive_ServesLast(param) ==
    /\ pc = "idle"
    /\ route' = "/nft-owners"
    /\ policyID' = QueryGet(param)
    /\ IF policyID' = <<>>
       THEN /\ Respond(StatusBadRequest, ErrorBody("Missing policy_id parameter"))
            /\ UNCHANGED <<dbCalls, dbOutcome>>
       ELSE IF last.ok /\ last.policyID = policyID'
       THEN /\ Respond(StatusOK, last.body)
            /\ UNCHANGED <<dbCalls, dbOutcome>>
       ELSE IF DecodeString(policyID').err # Nil
       THEN /\ Respond(StatusBadRequest, ErrorBody("Invalid policy_id hex"))
            /\ UNCHANGED <<dbCalls, dbOutcome>>
       ELSE /\ dbCalls' = dbCalls + 1
            /\ dbOutcome' = "pending"
            /\ pc' = "inflight"
            /\ UNCHANGED <<status, body>>
    /\ UNCHANGED <<rows, results, cacheCalls, goneInFlight>>
    /\ UNCHANGED envVars

NftReceive(param) ==
    /\ pc = "idle"
    /\ route' = "/nft-owners"
    /\ policyID' = QueryGet(param)
    /\ IF policyID' = <<>>
       THEN /\ Respond(StatusBadRequest, ErrorBody("Missing policy_id parameter"))
            /\ UNCHANGED <<dbCalls, dbOutcome>>
       ELSE IF DecodeString(policyID').err # Nil
       THEN /\ Respond(StatusBadRequest, ErrorBody("Invalid policy_id hex"))
            /\ UNCHANGED <<dbCalls, dbOutcome>>
       ELSE /\ dbCalls' = dbCalls + 1
            /\ dbOutcome' = "pending"
            /\ pc' = "inflight"
            /\ UNCHANGED <<status, body>>
    /\ UNCHANGED <<rows, results, cacheCalls, goneInFlight>>
    /\ UNCHANGED envVars

\* db.QueryContext returns.  It fails (the connection, the statement), or it
\* hands over the rows of the query in one of the orders ORDER BY allows.
\* Were the context done, the call would end with the context's error.  The
\* rows.Err() check that follows the call finds the error of a stream nothing
\* has been read from yet.
NftQueryReturn_Retries ==
    /\ pc = "inflight"
    /\ route = "/nft-owners"
    /\ \/ /\ dbCalls < 2
          /\ dbCalls' = dbCalls + 1
          /\ UNCHANGED <<dbOutcome, rows, pc, status, body>>
       \/ /\ dbOutcome' = "queryError"
          /\ Respond(StatusInternalServerError, ErrorBody("Database query error"))
          /\ UNCHANGED <<rows, dbCalls>>
       \/ \E order \in OrderBy(GroupBy(DecodeString(policyID).bytes)) :
              /\ rows' = [pending |-> order, lasterr |-> Nil]
              /\ dbOutcome' = "rows"
              /\ pc' = "iterate"
              /\ UNCHANGED <<status, body, dbCalls>>
    /\ UNCHANGED <<route, policyID, results, cacheCalls, goneInFlight>>
    /\ UNCHANGED envVars

NftQueryReturn ==
    /\ pc = "inflight"
    /\ route = "/nft-owners"
    /\ IF CtxDone
       THEN /\ dbOutcome' = "canceled"
            /\ Respond(StatusInternalServerError, ErrorBody("Database query error"))
            /\ UNCHANGED rows
       ELSE \/ /\ dbOutcome' = "queryError"
               /\ Respond(StatusInternalServerError, ErrorBody("Database query error"))
               /\ UNCHANGED rows
            \/ \E order \in OrderBy(GroupBy(DecodeString(policyID).bytes)) :
                   /\ rows' = [pending |-> order, lasterr |-> Nil]
                   /\ dbOutcome' = "rows"
                   /\ IF rows'.lasterr # Nil
                      THEN Respond(StatusInternalServerError, ErrorBody("Error reading rows"))
                      ELSE pc' = "iterate" /\ UNCHANGED <<status, body>>
    /\ UNCHANGED <<route, policyID, results, dbCalls, cacheCalls, goneInFlight>>
    /\ UNCHANGED envVars

\* One turn of the loop whose rows.Next() is true: the next row is scanned
\* into an NFTResponse and appended, or the scan fails.
NftRowsNext ==
    /\ pc = "iterate"
    /\ rows.pending # <<>>
    /\ rows' = [rows EXCEPT !.pending = Tail(@)]
    /\ \/ /\ results' = AppendSlice(results, Head(rows.pending))
          /\ UNCHANGED <<pc, status, body, dbOutcome>>
       \/ /\ dbOutcome' = "scanError"
          /\ Respond(StatusInternalServerError, ErrorBody("Scan error"))
          /\ UNCHANGED results
    /\ UNCHANGED <<route, policyID, dbCalls, cacheCalls, goneInFlight>>
    /\ UNCHANGED envVars

\* rows.Next() is false: the rows are exhausted, or the stream broke (the
\* error stays in the rows and nothing reads it).  The loop ends, the list is
\* marshalled and written, and the deferred rows.Close() runs.  The store
\* into the cache before the write is commented out in the source.
NftRespond_FailsOnStore ==
    /\ pc = "iterate"
    /\ \/ /\ rows.pending = <<>>
          /\ rows' = NoRows
          /\ dbOutcome' = "complete"
       \/ /\ rows' = [pending |-> <<>>, lasterr |-> "broken"]
          /\ dbOutcome' = "rowsError"
    /\ IF Marshal(results).err # Nil \/ ~cacheUp
       THEN Respond(StatusInternalServerError, ErrorBody("JSON encode error"))
       ELSE Respond(StatusOK, Marshal(results).data)
    /\ UNCHANGED <<route, policyID, results, dbCalls, cacheCalls, goneInFlight>>
    /\ UNCHANGED envVars

NftRespond ==
    /\ pc = "iterate"
    /\ \/ /\ rows.pending = <<>>
          /\ rows' = NoRows
          /\ dbOutcome' = "complete"
       \/ /\ rows' = [pending |-> <<>>, lasterr |-> "broken"]
          /\ dbOutcome' = "rowsError"
    /\ IF Marshal(results).err # Nil
       THEN Respond(StatusInternalServerError, ErrorBody("JSON encode error"))
       ELSE Respond(StatusOK, Marshal(results).data)
    /\ UNCHANGED <<route, policyID, results, dbCalls, cacheCalls, goneInFlight>>
    /\ UNCHANGED envVars

-----------------------------------------------------------------------------
(* getCurrentEpoch.                                                        *)

\* From the arrival of the request to the call of db.QueryRowContext.
EpochReceive ==
    /\ pc = "idle"
    /\ route' = "/current-epoch"
    /\ dbCalls' = dbCalls + 1
    /\ dbOutcome' = "pending"
    /\ pc' = "inflight"
    /\ UNCHANGED <<policyID, rows, results, status, body, cacheCalls, goneInFlight>>
    /\ UNCHANGED envVars

\* row.Scan(&epoch) delivers the query's error, or fails to put the NULL of
\* an empty table into an int64, or stores the number, which is marshalled
\* and written.
EpochQueryReturn ==
    /\ pc = "inflight"
    /\ route = "/current-epoch"
    /\ IF CtxDone
       THEN /\ dbOutcome' = "canceled"
            /\ Respond(StatusInternalServerError, ErrorBody("Failed to get current epoch"))
       ELSE \/ /\ dbOutcome' = "queryError"
               /\ Respond(StatusInternalServerError, ErrorBody("Failed to get current epoch"))
            \/ /\ MaxNo.null
               /\ dbOutcome' = "scanError"
               /\ Respond(StatusInternalServerError, ErrorBody("Failed to get current epoch"))
            \/ /\ ~MaxNo.null
               /\ dbOutcome' = "complete"
               /\ IF MarshalEpoch(MaxNo.value).err # Nil
                  THEN Respond(StatusInternalServerError, ErrorBody("JSON encode error"))
                  ELSE Respond(StatusOK, MarshalEpoch(MaxNo.value).data)
    /\ UNCHANGED <<route, policyID, rows, results, dbCalls, cacheCalls, goneInFlight>>
    /\ UNCHANGED envVars

-----------------------------------------------------------------------------
(* The server, the clients and the backends around the handlers.           *)

\* The response has been sent and the connection is ready for the next
\* request: nothing of the request outlives it.
Close ==
    /\ pc = "done"
    /\ pc' = "idle"
    /\ route' = None
    /\ policyID' = <<>>
    /\ rows' = NoRows
    /\ results' = NilSlice
    /\ status' = 0
    /\ body' = ""
    /\ dbCalls' = 0
    /\ cacheCalls' = 0
    /\ dbOutcome' = None
    /\ goneInFlight' = FALSE
    /\ clientGone' = FALSE
    /\ UNCHANGED <<tx_out, ma_tx_out, epoch, cacheUp>>

\* The client abandons the connection while its request is being served.
ClientAbandon ==
    /\ pc \in {"inflight", "iterate"}
    /\ ~clientGone
    /\ clientGone' = TRUE
    /\ goneInFlight' = (pc = "inflight")
    /\ UNCHANGED <<pc, route, policyID, rows, results, status, body, dbCalls,
                   cacheCalls, dbOutcome>>
    /\ UNCHANGED <<tx_out, ma_tx_out, epoch, cacheUp>>

\* The cache backend goes down or comes back.
CacheToggle ==
    /\ cacheUp' = ~cacheUp
    /\ UNCHANGED <<tx_out, ma_tx_out, epoch, clientGone>>
    /\ UNCHANGED progVars

\* The ingestion records a new output carrying one asset.  A query reads one
\* snapshot of the tables, so the ingestion's writes are placed between the
\* requests.
AddOutput(o, max) ==
    /\ pc = "idle"
    /\ Len(tx_out) < max
    /\ tx_out' = Append(tx_out, [address_id |-> o.address_id,
                                 consumed_by_tx_id |-> NULL])
    /\ ma_tx_out' = Append(ma_tx_out, [tx_out_id |-> Len(tx_out) + 1,
                                       ident |-> o.ident, quantity |-> o.quantity])
    /\ UNCHANGED <<epoch, cacheUp, clientGone>>
    /\ UNCHANGED progVars

\* The ingestion records that a later transaction consumed an output.
ConsumeOutput(t) ==
    /\ pc = "idle"
    /\ tx_out[t].consumed_by_tx_id = NULL
    /\ tx_out' = [tx_out EXCEPT ![t].consumed_by_tx_id = "tx"]
    /\ UNCHANGED <<ma_tx_out, epoch, cacheUp, clientGone>>
    /\ UNCHANGED progVars

\* The ingestion records the next epoch.
AddEpoch ==
    /\ pc = "idle"
    /\ Cardinality(epoch) <= MaxEpoch
    /\ epoch' = epoch \cup {Cardinality(epoch)}
    /\ UNCHANGED <<tx_out, ma_tx_out, cacheUp, clientGone>>
    /\ UNCHANGED progVars

-----------------------------------------------------------------------------
(* Spec: the two handlers with the clients, the cache backend and the      *)
(* ingestion around them.                                                  *)

Next ==
    \/ (\E param \in Params : NftReceive(param)) /\ UNCHANGED obsVars
    \/ NftQueryReturn /\ UNCHANGED obsVars
    \/ NftRowsNext /\ UNCHANGED obsVars
    \/ NftRespond /\ UNCHANGED obsVars
    \/ EpochReceive /\ UNCHANGED obsVars
    \/ EpochQueryReturn /\ UNCHANGED obsVars
    \/ Close /\ UNCHANGED obsVars
    \/ ClientAbandon /\ UNCHANGED obsVars
    \/ CacheToggle /\ UNCHANGED obsVars
    \/ (\E o \in Outputs : AddOutput(o, MaxServiceOutputs)) /\ UNCHANGED obsVars
    \/ (\E t \in DOMAIN tx_out : ConsumeOutput(t)) /\ UNCHANGED obsVars
    \/ AddEpoch /\ UNCHANGED obsVars

Spec == Init /\ [][Next]_vars

-----------------------------------------------------------------------------
(* SpecLedger: /nft-owners over a larger ledger, for what the aggregation  *)
(* query selects, sums and orders.                                         *)

InitLedger == Init /\ cacheUp

NextLedger ==
    \/ (\E param \in Params : NftReceive(param)) /\ UNCHANGED obsVars
    \/ NftQueryReturn /\ UNCHANGED obsVars
    \/ NftRowsNext /\ UNCHANGED obsVars
    \/ NftRespond /\ UNCHANGED obsVars
    \/ Close /\ UNCHANGED obsVars
    \/ (\E o \in Outputs : AddOutput(o, MaxOutputs)) /\ UNCHANGED obsVars
    \/ (\E t \in DOMAIN tx_out : ConsumeOutput(t)) /\ UNCHANGED obsVars

SpecLedger == InitLedger /\ [][NextLedger]_vars

-----------------------------------------------------------------------------
(* SpecRepeat: /nft-owners with an observer that remembers the latest      *)
(* successful response and the time since it was written, as the disabled  *)
(* cache store would have.                                                 *)

\* What the observer notes at a step of the handler.  When a request comes
\* in: whether the latest response answered the same policy_id, and how long
\* ago.  When a response is written: that response, if it is a 200.
Observe ==
    /\ prior' = IF pc = "idle" /\ pc' # "idle"
                THEN IF last.ok /\ last.policyID = policyID'
                     THEN [same |-> TRUE, age |-> age, body |-> last.body]
                     ELSE NoPrior
                ELSE IF pc' = "idle" THEN NoPrior ELSE prior
    /\ IF pc # "done" /\ pc' = "done"
       THEN /\ last' = IF status' = StatusOK
                       THEN [ok |-> TRUE, policyID |-> policyID', body |-> body']
                       ELSE NoLast
            /\ age' = 0
       ELSE UNCHANGED <<last, age>>

\* A minute passes.
Tick ==
    /\ age < MaxAge
    /\ age' = age + 1
    /\ UNCHANGED <<last, prior>>
    /\ UNCHANGED progVars
    /\ UNCHANGED envVars

NextRepeat ==
    \/ (\E param \in Params : NftReceive(param)) /\ Observe
    \/ NftQueryReturn /\ Observe
    \/ NftRowsNext /\ Observe
    \/ NftRespond /\ Observe
    \/ Close /\ Observe
    \/ Tick
    \/ (\E o \in Outputs : AddOutput(o, MaxRepeatOutputs)) /\ UNCHANGED obsVars
    \/ (\E t \in DOMAIN tx_out : ConsumeOutput(t)) /\ UNCHANGED obsVars

SpecRepeat == InitLedger /\ [][NextRepeat]_vars

-----------------------------------------------------------------------------
(* What the claims speak of, said without the operators of the model.      *)

Nft == route = "/nft-owners"
Served == pc = "done"

HexDigits ==
    { "0", "1", "2", "3", "4", "5", "6", "7", "8", "9",
      "a", "b", "c", "d", "e", "f", "A", "B", "C", "D", "E", "F" }

\* A policy_id that is empty (or absent), of odd length, or holds a
\* character that is no hexadecimal digit.
Malformed(s) ==
    \/ s = <<>>
    \/ Len(s) % 2 = 1
    \/ \E k \in DOMAIN s : s[k] \notin HexDigits

\* The bytes a well-formed policy_id stands for.
Policy == DecodeString(policyID).bytes

\* The ma_tx_out rows that count for an address under a policy: the asset
\* is of the policy, the output is unspent, the quantity is exactly 1 and
\* the address is not a script's.
Qualifying(a, policy) ==
    { m \in DOMAIN ma_tx_out :
        /\ multi_asset[ma_tx_out[m].ident].policy = policy
        /\ tx_out[ma_tx_out[m].tx_out_id].consumed_by_tx_id = NULL
        /\ ma_tx_out[m].quantity = 1
        /\ address[tx_out[ma_tx_out[m].tx_out_id].address_id].address = a
        /\ ~address[tx_out[ma_tx_out[m].tx_out_id].address_id].has_script }

Addresses == { address[k].address : k \in DOMAIN address }

\* The count a list of records gives an address: 0 when it has no record.
CountOf(recs, a) ==
    IF \E k \in DOMAIN recs : recs[k].Address = a
    THEN (CHOOSE r \in { recs[k] : k \in DOMAIN recs } : r.Address = a).Count
    ELSE 0

\* The bodies http.Error is given: none holds a cause.
GenericMessages ==
    { "Database query error\n", "Error reading rows\n", "Scan error\n",
      "JSON encode error\n", "Failed to get current epoch\n" }

-----------------------------------------------------------------------------
(* The claims.                                                             *)

\* C1: a request to /nft-owners whose policy_id is malformed (empty or
\* absent, of odd length, or with a non-hex character) is answered 400, and
\* its handler issues no database call and no cache call, neither before
\* nor after it responds.
C1_MalformedRejected ==
    (Nft /\ pc # "idle" /\ Malformed(policyID)) =>
        /\ Served
        /\ status = StatusBadRequest
        /\ dbCalls = 0
        /\ cacheCalls = 0
        /\ dbOutcome = None

C1_Witness ==
    /\ Nft /\ Served
    /\ Len(policyID) % 2 = 1
    /\ \A k \in DOMAIN policyID : policyID[k] \in HexDigits
    /\ status = StatusBadRequest

\* C2 (as claimed): of two consecutive successful /nft-owners requests with
\* the same policy_id, the second within the TTL of the first, the second
\* issues no database query and returns the same bytes as the first.
C2_SecondIsCacheHit ==
    (Nft /\ Served /\ status = StatusOK /\ prior.same /\ prior.age < TTL) =>
        /\ dbCalls = 0
        /\ body = prior.body

\* C3 (as claimed): a valid policy_id whose query returns no row is answered
\* 200 with the body [].
C3_EmptyArray ==
    (Nft /\ Served /\ dbOutcome = "complete" /\ GroupBy(Policy) = {}) =>
        /\ status = StatusOK
        /\ body = "[]"

\* C4 (as claimed): a request whose query fails to start, whose scan of a
\* row fails, or whose row iteration is ended early by an error, is answered
\* 500 with a generic message, never 200 with a partial list.
C4_ErrorsAre500 ==
    (Nft /\ Served /\
       \/ dbOutcome \in {"queryError", "scanError"}
       \/ dbOutcome = "rowsError"
            /\ Len(results.elems) < Cardinality(GroupBy(Policy))) =>
        /\ status = StatusInternalServerError
        /\ body \in GenericMessages

\* C5: whatever the state of the cache backend, a valid /nft-owners request
\* whose database call went well is answered 200 with the rows the database
\* returned: a cache failure never reaches the client.
C5_CacheFailureInvisible ==
    (Nft /\ Served /\ ~Malformed(policyID) /\ dbOutcome = "complete") =>
        /\ status = StatusOK
        /\ { results.elems[k] : k \in DOMAIN results.elems } = GroupBy(Policy)
        /\ Len(results.elems) = Cardinality(GroupBy(Policy))
        /\ body = Marshal(results).data

C5_Witness ==
    /\ Nft /\ Served /\ ~cacheUp
    /\ dbOutcome = "complete"
    /\ status = StatusOK
    /\ Len(results.elems) = 2

\* C6 (as claimed): when the client abandons the connection while the
\* database call of its request is in flight, the call is aborted: it does
\* not run to completion.
C6_AbandonAborts ==
    (goneInFlight /\ pc # "inflight") => dbOutcome = "canceled"

\* C7: in every 200 response of /nft-owners no two records have the same
\* address, each record's count is the sum of the quantities (each 1) of
\* its address's qualifying outputs and is at least 1, and the counts do not
\* increase along the array.
C7_Aggregated ==
    (Nft /\ Served /\ status = StatusOK) =>
        LET recs == results.elems
        IN  /\ \A j, k \in DOMAIN recs : recs[j].Address = recs[k].Address => j = k
            /\ \A k \in DOMAIN recs :
                   /\ recs[k].Count = Cardinality(Qualifying(recs[k].Address, Policy))
                   /\ recs[k].Count >= 1
            /\ \A j, k \in DOMAIN recs : j < k => recs[j].Count >= recs[k].Count
            /\ body = Marshal(results).data

C7_Witness ==
    /\ Nft /\ Served /\ status = StatusOK
    /\ Len(results.elems) = 2
    /\ results.elems[1].Count = 2
    /\ results.elems[2].Count = 1

C9_FreshAfterTTL ==
    (Nft /\ pc # "idle" /\ prior.same /\ prior.age >= TTL) =>
        /\ dbCalls = 1
        /\ (Served /\ status = StatusOK) =>
               /\ body = Marshal(results).data
               /\ \A k \in DOMAIN results.elems : results.elems[k] \in GroupBy(Policy)

C9_Witness ==
    /\ Nft /\ Served /\ status = StatusOK
    /\ prior.same /\ prior.age >= TTL
    /\ dbCalls = 1
    /\ body # prior.body

====
